---- MODULE Spec2Model ----
(***************************************************************************)
(* SonarAI: the streaming scene sampler (StreamingMode), the traditional   *)
(* ask flow (Demo) and the /api/chat endpoint, as a state machine.         *)
(*                                                                         *)
(* Texts are sequences of one-character strings, so that splitting,        *)
(* trimming and lower-casing are computed as the JavaScript computes them. *)
(***************************************************************************)
EXTENDS Integers, Sequences, FiniteSets, TLC

(***************************************************************************)
(* Bounds of the model.                                                    *)
(***************************************************************************)
\* frames counted + requests outstanding
MaxFrames == 2
\* setInterval timers alive at once
MaxTimers == 2
\* startStreaming calls awaiting getUserMedia
MaxPendingStarts == 2
\* question handlers alive at once
MaxQuestions == 2
\* utterances queued in the synthesizer at once
MaxUtterances == 2
\* SpeechRecognition instances of one kind alive at once
MaxRecognizers == 1
\* untracked setTimeout(startWakeListener) pending
MaxWakeTimeouts == 1
\* question/answer pairs appended to the conversation history
MaxTurns == 5
\* events read from one response stream
MaxChunks == 3
\* bytes one reader.read() returns
MaxRead == 96

(***************************************************************************)
(* Text: what String.prototype.{trim, toLowerCase, split(/\s+/)} compute.  *)
(***************************************************************************)
Whitespace == {" ", "\n"}

Empty == << >>

UpperCase ==
  <<"A", "B", "C", "D", "E", "F", "G", "H", "I", "J", "K", "L", "M",
    "N", "O", "P", "Q", "R", "S", "T", "U", "V", "W", "X", "Y", "Z">>

LowerCase ==
  <<"a", "b", "c", "d", "e", "f", "g", "h", "i", "j", "k", "l", "m",
    "n", "o", "p", "q", "r", "s", "t", "u", "v", "w", "x", "y", "z">>

LowerOf ==
  [c \in { UpperCase[k] : k \in DOMAIN UpperCase } |->
     LowerCase[CHOOSE k \in DOMAIN UpperCase : UpperCase[k] = c]]

toLowerCase(s) ==
  [i \in 1..Len(s) |-> IF s[i] \in DOMAIN LowerOf THEN LowerOf[s[i]] ELSE s[i]]

RECURSIVE trimStart(_)
trimStart(s) ==
  IF s # Empty /\ Head(s) \in Whitespace THEN trimStart(Tail(s)) ELSE s

RECURSIVE trimEnd(_)
trimEnd(s) ==
  IF s # Empty /\ s[Len(s)] \in Whitespace
    THEN trimEnd(SubSeq(s, 1, Len(s) - 1))
    ELSE s

trim(s) == trimEnd(trimStart(s))

(* s.split(/\s+/): the pieces between maximal runs of whitespace; a run at *)
(* the start or at the end of s leaves an empty piece there.               *)
RECURSIVE splitWhitespace(_, _, _)
splitWhitespace(s, cur, acc) ==
  IF s = Empty THEN Append(acc, cur)
  ELSE IF Head(s) \in Whitespace
    THEN splitWhitespace(trimStart(s), Empty, Append(acc, cur))
    ELSE splitWhitespace(Tail(s), Append(cur, Head(s)), acc)

split(s) == splitWhitespace(s, Empty, << >>)

Range(f) == { f[i] : i \in DOMAIN f }

(* Jaccard similarity of the two word sets, as the fraction <<num, den>>.  *)
wordSimilarity(a, b) ==
  IF a = Empty \/ b = Empty THEN <<0, 1>>
  ELSE LET setA == Range(split(toLowerCase(a)))
           setB == Range(split(toLowerCase(b)))
           intersection == Cardinality(setA \cap setB)
           union == Cardinality(setA \cup setB)
       IN  IF union = 0 THEN <<0, 1>> ELSE <<intersection, union>>

(* The comparison `wordSimilarity(...) > 0.75`, on the fraction.           *)
ThresholdNum == 3
ThresholdDen == 4
AboveThresholdInclusive(sim) == sim[1] * ThresholdDen >= ThresholdNum * sim[2]

AboveThreshold(sim) == sim[1] * ThresholdDen > ThresholdNum * sim[2]


(* JavaScript's null; '' and null are the two falsy values a text can be.  *)
Null == <<"null">>

Falsy(x) == x = Null \/ x = Empty

RECURSIVE Concat(_)
Concat(texts) ==
  IF texts = << >> THEN Empty ELSE Head(texts) \o Concat(Tail(texts))

(***************************************************************************)
(* POST /api/chat (the Anthropic server).  `upstream` is what the model    *)
(* API does for this request: the text deltas it streams, whether the      *)
(* stream then throws, whether the final message holds tool_use blocks,    *)
(* and the text of the continuation call (Null: that call throws).         *)
(***************************************************************************)
TextEvent(t) == [type |-> "text", text |-> t]
DoneEvent == [type |-> "done", text |-> Empty]
ErrorEvent == [type |-> "error", text |-> Empty]

ChatHandler(hasMessage, upstream) ==
  IF ~hasMessage THEN [status |-> 400, events |-> << >>, broken |-> FALSE]
  ELSE
    LET written == [i \in 1..Len(upstream.deltas) |-> TextEvent(upstream.deltas[i])]
        fullText == Concat(upstream.deltas)
        continues == upstream.tools /\ trim(fullText) = Empty
        tail ==
          IF upstream.throws THEN <<ErrorEvent>>
          ELSE IF continues /\ upstream.continuation = Null THEN <<ErrorEvent>>
          ELSE IF continues /\ upstream.continuation # Empty
            THEN <<TextEvent(upstream.continuation), DoneEvent>>
          ELSE <<DoneEvent>>
    IN [status |-> 200, events |-> written \o tail, broken |-> FALSE]

(* What a client's fetch can come back with: a rejection (status 0), a     *)
(* non-OK status from the proxy in front of the server, a stream that      *)
(* breaks while it is read, or the server's own answer.                    *)
Upstream(deltas, throws, tools, continuation) ==
  [deltas |-> deltas, throws |-> throws, tools |-> tools, continuation |-> continuation]

TextABC == <<"a", " ", "b", " ", "c">>
TextABCD == <<"a", " ", "b", " ", "c", " ", "d">>
TextABDotCD == <<"a", " ", "b", " ", ".", " ", "c", " ", "d">>
TextBlank == <<" ">>
TextSpABC == <<" ", "a", " ", "b", " ", "c">>

Upstreams ==
  { Upstream(<<TextABC>>, FALSE, FALSE, Empty),
    Upstream(<<<<"a", " ", "b">>, <<" ", "c", " ", "d">>>>, FALSE, FALSE, Empty),
    Upstream(<<TextABDotCD>>, FALSE, TRUE, Empty),
    Upstream(<<TextBlank>>, FALSE, FALSE, Empty),
    Upstream(<<TextSpABC>>, FALSE, FALSE, Empty),
    Upstream(<< >>, FALSE, TRUE, TextABC),
    Upstream(<< >>, FALSE, TRUE, Null),
    Upstream(<< >>, FALSE, FALSE, Empty),
    Upstream(<<TextABC>>, TRUE, FALSE, Empty) }

Rejected == [status |-> 0, events |-> << >>, broken |-> FALSE]
BadGateway == [status |-> 502, events |-> << >>, broken |-> FALSE]
BrokenStream == [status |-> 200, events |-> <<TextEvent(TextABC)>>, broken |-> TRUE]

Responses ==
  {Rejected, BadGateway, BrokenStream} \cup { ChatHandler(TRUE, u) : u \in Upstreams }

(* fetch rejected, `!res.ok`, or reader.read() rejected: the caller throws *)
Throws(resp) == resp.status = 0 \/ resp.status \notin 200..299 \/ resp.broken

(* collectSSE: the text fields of the events, in order; an event without a *)
(* (non-empty) text field adds nothing.                                    *)
RECURSIVE collectSSE(_)
collectSSE(events) ==
  IF events = << >> THEN Empty
  ELSE (IF Head(events).type = "text" THEN Head(events).text ELSE Empty)
         \o collectSSE(Tail(events))

(***************************************************************************)
(* Demo's sentence segmenter: streamResponse's `flush` and speakQueued.    *)
(***************************************************************************)
Terminators == {".", "!", "?"}

searchTerminator(buffer) ==
  LET hits == { i \in 1..Len(buffer) : buffer[i] \in Terminators }
  IN IF hits = {} THEN 0 ELSE CHOOSE i \in hits : \A j \in hits : i <= j

(* buffer.search(/[.!?]\s/) as a 1-based index, 0 for -1.                  *)
search(buffer) ==
  LET hits == { i \in 1..(Len(buffer) - 1) :
                  buffer[i] \in Terminators /\ buffer[i + 1] \in Whitespace }
  IN IF hits = {} THEN 0 ELSE CHOOSE i \in hits : \A j \in hits : i <= j

(* speakQueued(text): what is handed to the synthesizer, if anything.      *)
speakQueued(spoken, text) ==
  IF trim(text) = Empty THEN spoken ELSE Append(spoken, trim(text))

RECURSIVE flush(_, _)

flushKeepBuffer(st, final) ==
  IF final
    THEN [buffer |-> st.buffer,
          spoken |-> IF trim(st.buffer) # Empty
                       THEN Append(st.spoken, trim(st.buffer))
                       ELSE st.spoken]
  ELSE LET idx == search(st.buffer)
       IN IF idx = 0 THEN st
          ELSE flush([buffer |-> trimStart(SubSeq(st.buffer, idx + 1, Len(st.buffer))),
                      spoken |-> Append(st.spoken, trim(SubSeq(st.buffer, 1, idx)))],
                     FALSE)

(* flush(final) on the state [buffer, spoken].                             *)
flush(st, final) ==
  IF final
    THEN [buffer |-> Empty,
          spoken |-> IF trim(st.buffer) # Empty
                       THEN speakQueued(st.spoken, trim(st.buffer))
                       ELSE st.spoken]
  ELSE LET idx == search(st.buffer)
       IN IF idx = 0 THEN st
          ELSE flush([buffer |-> trimStart(SubSeq(st.buffer, idx + 1, Len(st.buffer))),
                      spoken |-> speakQueued(st.spoken, SubSeq(st.buffer, 1, idx))],
                     FALSE)

(* One `data: ` line of the stream, in streamResponse's read loop.         *)
onEvent(st, event) ==
  LET withText ==
        IF event.type = "text" /\ event.text # Empty
          THEN flush([buffer |-> st.buffer \o event.text, spoken |-> st.spoken], FALSE)
          ELSE st
  IN IF event.type = "done" THEN flush(withText, TRUE) ELSE withText

(* The read loop over the events of a stream.                              *)
RECURSIVE streamEvents(_, _)
streamEvents(events, st) ==
  IF events = << >> THEN st
  ELSE streamEvents(Tail(events), onEvent(st, Head(events)))

(***************************************************************************)
(* What the user says, and processUserInput's classification of it.        *)
(***************************************************************************)
MsgMore == <<"m", "o", "r", "e">>
MsgSee == <<"S", "e", "e">>
MsgAroundMe ==
  <<"W", "h", "a", "t", "'", "s", " ", "a", "r", "o", "u", "n", "d", " ", "m", "e", "?">>
MsgSurroundings ==
  <<"D", "e", "s", "c", "r", "i", "b", "e", " ", "m", "y", " ",
    "s", "u", "r", "r", "o", "u", "n", "d", "i", "n", "g", "s">>
MsgChair ==
  <<"W", "h", "e", "r", "e", " ", "w", "a", "s", " ", "t", "h", "e", " ",
    "c", "h", "a", "i", "r", "?">>
MsgTellMore == <<"T", "e", "l", "l", " ", "m", "e", " ", "m", "o", "r", "e">>
Messages == {MsgMore, MsgSee, MsgAroundMe, MsgSurroundings, MsgChair, MsgTellMore}

startsWith(s, w) == Len(w) <= Len(s) /\ \A k \in 1..Len(w) : s[k] = w[k]

includes(s, w) ==
  \E i \in 0..(Len(s) - Len(w)) : \A k \in 1..Len(w) : s[i + k] = w[k]

Triggers ==
  { <<"a", "r", "o", "u", "n", "d">>,
    <<"w", "h", "e", "r", "e", " ", "a", "m", " ", "i">>,
    <<"d", "e", "s", "c", "r", "i", "b", "e">>,
    <<"s", "e", "e">>,
    <<"l", "o", "o", "k">>,
    <<"s", "c", "a", "n">>,
    <<"f", "r", "o", "n", "t">>,
    <<"s", "u", "r", "r", "o", "u", "n", "d">> }

needsCapture(spokenText) ==
  LET lower == toLowerCase(spokenText)
  IN \E word \in Triggers : includes(lower, word)

(***************************************************************************)
(* State.                                                                  *)
(***************************************************************************)
VARIABLES
  component,        \* which UI is mounted: "traditional" (Demo), "streaming"
                    \* (StreamingMode over /api/chat), "overshoot" (StreamingMode
                    \* over the RealtimeVision SDK)
  isStreaming,      \* isStreamingRef.current / isStreaming
  voiceMuted,       \* voiceMutedRef.current / voiceMuted
  sceneMemory,      \* sceneMemory: Null or a text
  lastDescription,  \* lastDescriptionRef.current: '' or a text
  metrics,          \* metrics.framesProcessed, metrics.newDescriptions
  isProcessing,     \* isProcessingRef.current / isProcessing
  isAnalyzing,      \* isAnalyzingRef.current
  isSpeaking,       \* isSpeakingRef.current
  error,            \* the error banner is shown (error !== null)
  timers,           \* the sample sources that are alive: setInterval timers,
                    \* or started RealtimeVision instances
  intervalRef,      \* intervalRef.current / visionRef.current, or 0 for null
  pendingStarts,    \* startStreaming calls awaiting getUserMedia / vision.start
  pendingStops,     \* RealtimeVision instances whose stop() is awaited
  streamAttached,   \* the video element has a camera stream (srcObject)
  frameRequests,    \* tick bodies awaiting /api/chat: .live were sent in the
                    \* current session, .stale before the last stopStreaming
  synth,            \* window.speechSynthesis: .queue (head is playing) and
                    \* .errors (cancelled utterances whose event is pending)
  questions,        \* the handleQuestion / processUserInput calls in progress
  wake,             \* wake-word recognizers and the timers that start them
  mic,              \* manual-microphone recognizers
  isListening,      \* isListening
  isListeningActive,\* isListeningActiveRef.current
  cameraReady,      \* cameraReady (Demo)
  srSupported,      \* the browser has window.SpeechRecognition
  conversationHistory, \* conversationHistory: the entries, oldest first
  videoReady,       \* the video element has a frame (readyState >= 2)
  reader            \* one streamResponse call: its buffer, what it has
                    \* handed to speakQueued, and its place in the read loop

vars ==
  <<component, isStreaming, voiceMuted, sceneMemory, lastDescription, metrics,
    isProcessing, isAnalyzing, isSpeaking, error, timers, intervalRef,
    pendingStarts, pendingStops, streamAttached, frameRequests, synth, questions,
    wake, mic, isListening, isListeningActive, cameraReady, srSupported,
    conversationHistory, videoReady, reader>>

samplerVars ==
  <<isStreaming, metrics, isAnalyzing, timers, intervalRef, pendingStarts,
    pendingStops, streamAttached, frameRequests>>
recognitionVars == <<wake, mic, isListening, isListeningActive>>

(***************************************************************************)
(* window.speechSynthesis: the queue of utterances (the head is playing)   *)
(* and the error events of cancelled utterances that are still to be       *)
(* delivered.                                                              *)
(***************************************************************************)
(* speak(text, true) is used for these; the others are queued behind    *)
(* whatever is playing.                                                 *)
PriorityKinds == {"intro", "stopped", "answer", "apology", "voiceOn", "yes",
                  "guidance", "unavailable"}

Utterance(kind, owner) == [kind |-> kind, owner |-> owner]

(* Something awaits the promise of these: `.then(() => isSpeakingRef...)` *)
(* for a scene narration, the handler that owns an answer or an apology.   *)
Awaited(u) == u.kind = "scene" \/ u.owner # 0

CanSpeak(S) == Len(S.queue) < MaxUtterances

cancelWithoutEvents(S) == [queue |-> << >>, errors |-> S.errors]

(* cancel(): the queue is emptied; the error event of every removed        *)
(* utterance whose promise something awaits is left pending.               *)
cancel(S) ==
  [queue |-> << >>, errors |-> S.errors \cup { u \in Range(S.queue) : Awaited(u) }]

synthSpeak(S, kind, owner) == [S EXCEPT !.queue = Append(@, Utterance(kind, owner))]

speakWithoutCancel(S, kind, priority, owner) == synthSpeak(S, kind, owner)

speakUnlessMuted(S, kind, priority, owner) ==
  IF voiceMuted THEN S ELSE synthSpeak(IF priority THEN cancel(S) ELSE S, kind, owner)

(* speak(text, priority): `if (priority) cancel()`, then synth.speak(utt)  *)
speak(S, kind, priority, owner) ==
  synthSpeak(IF priority THEN cancel(S) ELSE S, kind, owner)

Speaking(S) == S.queue # << >>

(***************************************************************************)
(* The conversation history.  An entry is identified by its role and by    *)
(* the number of the exchange it belongs to, counted as they are appended. *)
(***************************************************************************)
(* prev.slice(-n)                                                          *)
sliceLast(prev, n) ==
  IF Len(prev) <= n THEN prev ELSE SubSeq(prev, Len(prev) - n + 1, Len(prev))

HistoryKeep == 6

NextTurn(prev) == IF prev = << >> THEN 1 ELSE prev[Len(prev)].turn + 1

NewTurn(n) == <<[role |-> "user", turn |-> n], [role |-> "assistant", turn |-> n]>>

appendTurnKeepAll(prev) == prev \o NewTurn(NextTurn(prev))

(* prev => [...prev.slice(-6), {role: 'user', ...}, {role: 'assistant', ...}] *)
appendTurn(prev) == sliceLast(prev, HistoryKeep) \o NewTurn(NextTurn(prev))

(***************************************************************************)
(* Question handlers (handleQuestion / processUserInput calls).  Slot h is *)
(* idle, or holds one call in progress: where it is suspended ("fetching": *)
(* awaiting /api/chat; "draining": awaiting the poll for the synthesizer   *)
(* to fall silent; "speaking": awaiting the end of its utterance) and      *)
(* whether its request carried an image.                                   *)
(***************************************************************************)
Handlers == 1..MaxQuestions

Idle == [pc |-> "idle", image |-> FALSE]

FreeHandlers == { h \in Handlers : questions[h].pc = "idle" }

NewHandler == CHOOSE h \in FreeHandlers : \A g \in FreeHandlers : h <= g

(***************************************************************************)
(* Init: the component has just mounted.                                   *)
(***************************************************************************)
NoWake == [running |-> 0, refRunning |-> FALSE, ending |-> 0, restartTimer |-> FALSE, timeouts |-> 0]
NoMic == [open |-> 0, stopping |-> 0, memory |-> Null]
NoReader ==
  [st |-> [buffer |-> Empty, spoken |-> << >>], fullText |-> Empty, reads |-> 0,
   open |-> FALSE, events |-> << >>, wire |-> Empty]

Init ==
  /\ component \in {"traditional", "streaming", "overshoot"}
  /\ isStreaming = FALSE
  /\ voiceMuted = FALSE
  /\ sceneMemory = Null
  /\ lastDescription = Empty
  /\ metrics = [framesProcessed |-> 0, newDescriptions |-> 0]
  /\ isProcessing = FALSE
  /\ isAnalyzing = FALSE
  /\ isSpeaking = FALSE
  /\ error = FALSE
  /\ timers = {}
  /\ intervalRef = 0
  /\ pendingStarts = 0
  /\ pendingStops = {}
  /\ streamAttached = FALSE
  /\ frameRequests = [live |-> 0, stale |-> 0]
  /\ synth = [queue |-> << >>, errors |-> {}]
  /\ questions = [h \in Handlers |-> Idle]
  /\ wake = NoWake
  /\ mic = NoMic
  /\ isListening = FALSE
  /\ isListeningActive = FALSE
  /\ cameraReady \in (IF component = "traditional" THEN BOOLEAN ELSE {FALSE})
  /\ srSupported \in BOOLEAN
  /\ conversationHistory = << >>
  /\ videoReady = FALSE
  /\ reader = NoReader

(***************************************************************************)
(* stopWakeListener: clear the tracked restart timer, abort the recognizer *)
(* wakeRecRef points to (its end event follows) and forget it.             *)
(***************************************************************************)
stopWakeListener(w) ==
  [w EXCEPT !.restartTimer = FALSE,
            !.running = IF w.refRunning THEN @ - 1 ELSE @,
            !.ending = IF w.refRunning THEN @ + 1 ELSE @,
            !.refRunning = FALSE]

(***************************************************************************)
(* StreamingMode over /api/chat: startStreaming, the tick, stopStreaming.  *)
(***************************************************************************)
FreeTimers == (1..MaxTimers) \ timers

Outstanding == frameRequests.live + frameRequests.stale

(* startStreaming up to `await getUserMedia(...)`.  The button calls it    *)
(* while isStreaming is false.                                             *)
StartStreamingBegin ==
  /\ component = "streaming"
  /\ ~isStreaming
  /\ pendingStarts < MaxPendingStarts
  /\ pendingStarts' = pendingStarts + 1
  /\ error' = FALSE
  /\ UNCHANGED <<component, conversationHistory, videoReady, reader, pendingStops, isStreaming, voiceMuted, sceneMemory, lastDescription,
                 metrics, isProcessing, isAnalyzing, isSpeaking, timers, intervalRef,
                 streamAttached, frameRequests, synth, questions, recognitionVars,
                 cameraReady, srSupported>>

(* The same where the button is pressed once: no other startStreaming call *)
(* is awaiting the camera.                                                 *)
StartStreamingAlone ==
  /\ pendingStarts = 0
  /\ StartStreamingBegin

(* getUserMedia rejected: the catch block.                                 *)
StartStreamingDenied ==
  /\ component = "streaming"
  /\ pendingStarts > 0
  /\ pendingStarts' = pendingStarts - 1
  /\ error' = TRUE
  /\ UNCHANGED <<component, conversationHistory, videoReady, reader, pendingStops, isStreaming, voiceMuted, sceneMemory, lastDescription,
                 metrics, isProcessing, isAnalyzing, isSpeaking, timers, intervalRef,
                 streamAttached, frameRequests, synth, questions, recognitionVars,
                 cameraReady, srSupported>>

(* getUserMedia resolved: the rest of startStreaming.                      *)
StartStreamingGranted ==
  /\ component = "streaming"
  /\ pendingStarts > 0
  /\ FreeTimers # {}
  /\ wake.timeouts < MaxWakeTimeouts
  /\ pendingStarts' = pendingStarts - 1
  /\ streamAttached' = TRUE
  /\ isStreaming' = TRUE
  /\ metrics' = [framesProcessed |-> 0, newDescriptions |-> 0]
  /\ synth' = speak(synth, "intro", TRUE, 0)
  /\ \E t \in FreeTimers :
       /\ \A u \in FreeTimers : t <= u
       /\ timers' = timers \cup {t}
       /\ intervalRef' = t
  /\ wake' = [wake EXCEPT !.timeouts = @ + 1]
  /\ videoReady' = FALSE
  /\ UNCHANGED <<component, conversationHistory, reader, pendingStops, voiceMuted, sceneMemory, lastDescription, isProcessing,
                 isAnalyzing, isSpeaking, error, frameRequests, questions, mic,
                 isListening, isListeningActive, cameraReady, srSupported>>

(* The video element has loaded the first frame of the attached stream.    *)
VideoLoaded ==
  /\ component = "streaming"
  /\ streamAttached /\ ~videoReady
  /\ videoReady' = TRUE
  /\ UNCHANGED <<component, conversationHistory, reader, isStreaming, voiceMuted,
                 sceneMemory, lastDescription, metrics, isProcessing, isAnalyzing,
                 isSpeaking, error, timers, intervalRef, pendingStarts, pendingStops,
                 streamAttached, frameRequests, synth, questions, recognitionVars,
                 cameraReady, srSupported>>

(* captureFrameImage(): whether it returns an image; it returns null while *)
(* video.readyState < 2.                                                   *)
captureFrameImage == streamAttached /\ videoReady

(* The interval callback up to `await fetch`: whether it sends a request,  *)
(* and what it leaves in isAnalyzingRef.current.                           *)
tickFlagFirst ==
  IF isProcessing \/ isAnalyzing THEN [sent |-> FALSE, isAnalyzing |-> isAnalyzing]
  ELSE [sent |-> captureFrameImage, isAnalyzing |-> TRUE]

tick ==
  IF isProcessing \/ isAnalyzing THEN [sent |-> FALSE, isAnalyzing |-> isAnalyzing]
  ELSE IF ~captureFrameImage THEN [sent |-> FALSE, isAnalyzing |-> isAnalyzing]
  ELSE [sent |-> TRUE, isAnalyzing |-> TRUE]

(* A tick that captures a frame and sends it; a tick that returns early    *)
(* changes nothing.                                                        *)
TickSample ==
  /\ component = "streaming"
  /\ timers # {}
  /\ tick.sent
  /\ metrics.framesProcessed + Outstanding < MaxFrames
  /\ isAnalyzing' = tick.isAnalyzing
  /\ frameRequests' = [frameRequests EXCEPT !.live = @ + 1]
  /\ UNCHANGED <<component, conversationHistory, videoReady, reader, isStreaming, voiceMuted, sceneMemory, lastDescription,
                 metrics, isProcessing, isSpeaking, error, timers, intervalRef,
                 pendingStarts, pendingStops, streamAttached, synth, questions, recognitionVars,
                 cameraReady, srSupported>>

(* The two functional updates of the metrics: a frame whose description is *)
(* not blank, and a description that is accepted.                          *)
countNothing(m) == m

countFrame(m) == [m EXCEPT !.framesProcessed = @ + 1]

countDescription(m) == [m EXCEPT !.newDescriptions = @ + 1]

(* The tick body after `await fetch` for one outstanding request of the    *)
(* given age ("live" or "stale"), the response being `resp`.               *)
FrameResponse(age, resp) ==
  /\ component = "streaming"
  /\ frameRequests[age] > 0
  /\ frameRequests' = [frameRequests EXCEPT ![age] = @ - 1]
  /\ isAnalyzing' = FALSE
  /\ LET description == collectSSE(resp.events)
         narrate == ~isProcessing /\ ~voiceMuted
     IN
       IF Throws(resp) \/ trim(description) = Empty
         THEN UNCHANGED <<metrics, lastDescription, sceneMemory, synth, isSpeaking>>
       ELSE IF AboveThreshold(wordSimilarity(description, lastDescription))
         THEN /\ metrics' = countFrame(metrics)
              /\ UNCHANGED <<lastDescription, sceneMemory, synth, isSpeaking>>
       ELSE /\ metrics' = countDescription(countFrame(metrics))
            /\ lastDescription' = description
            /\ sceneMemory' = description
            /\ synth' = IF narrate THEN speak(cancel(synth), "scene", FALSE, 0) ELSE synth
            /\ isSpeaking' = IF narrate THEN TRUE ELSE isSpeaking
  /\ UNCHANGED <<component, conversationHistory, videoReady, reader, isStreaming, voiceMuted, isProcessing, error, timers,
                 intervalRef, pendingStarts, pendingStops, streamAttached, questions,
                 recognitionVars, cameraReady, srSupported>>

(* stopStreaming.  The button calls it while isStreaming is true.          *)
StopStreaming ==
  /\ component = "streaming"
  /\ isStreaming
  /\ synth' = speak(cancel(synth), "stopped", TRUE, 0)
  /\ wake' = stopWakeListener(wake)
  /\ timers' = timers \ {intervalRef}
  /\ intervalRef' = 0
  /\ streamAttached' = FALSE
  /\ isStreaming' = FALSE
  /\ isAnalyzing' = FALSE
  /\ isSpeaking' = FALSE
  /\ frameRequests' = [live |-> 0, stale |-> Outstanding]
  /\ videoReady' = FALSE
  /\ UNCHANGED <<component, conversationHistory, reader, voiceMuted, sceneMemory, lastDescription, metrics,
                 isProcessing, error, pendingStarts, pendingStops, questions, mic, isListening,
                 isListeningActive, cameraReady, srSupported>>

(***************************************************************************)
(* Speech events.                                                          *)
(***************************************************************************)
(* The continuation of speak(...)'s promise for utterance u.               *)
Settle(u) ==
  /\ isSpeaking' = IF u.kind = "scene" THEN FALSE ELSE isSpeaking
  /\ IF u.owner # 0
       THEN /\ questions' = [questions EXCEPT ![u.owner] = Idle]
            /\ isProcessing' = FALSE
       ELSE UNCHANGED <<questions, isProcessing>>

(* The utterance that is playing finishes: its end event.                  *)
UtteranceEnd ==
  /\ synth.queue # << >>
  /\ synth' = [synth EXCEPT !.queue = Tail(@)]
  /\ Settle(Head(synth.queue))
  /\ UNCHANGED <<component, conversationHistory, videoReady, reader, isStreaming, voiceMuted, sceneMemory, lastDescription,
                 metrics, isAnalyzing, error, timers, intervalRef, pendingStarts, pendingStops,
                 streamAttached, frameRequests, recognitionVars, cameraReady, srSupported>>

(* The error event of a cancelled utterance.                               *)
UtteranceError(u) ==
  /\ u \in synth.errors
  /\ synth' = [synth EXCEPT !.errors = @ \ {u}]
  /\ Settle(u)
  /\ UNCHANGED <<component, conversationHistory, videoReady, reader, isStreaming, voiceMuted, sceneMemory, lastDescription,
                 metrics, isAnalyzing, error, timers, intervalRef, pendingStarts, pendingStops,
                 streamAttached, frameRequests, recognitionVars, cameraReady, srSupported>>

(***************************************************************************)
(* Voice questions in streaming mode: generateResponse and handleQuestion. *)
(***************************************************************************)
(* handleQuestion up to `await fetch` inside generateResponse.             *)
handleQuestion(message, S) ==
  /\ FreeHandlers # {}
  /\ questions' = [questions EXCEPT ![NewHandler] = [Idle EXCEPT !.pc = "fetching"]]
  /\ isProcessing' = TRUE
  /\ synth' = cancel(S)
  /\ isSpeaking' = FALSE

(* The rest of generateResponse and handleQuestion up to `await speak`:    *)
(* the answer is spoken with priority, or the apology when the call threw. *)
QuestionResponse(h, resp) ==
  /\ component \in {"streaming", "overshoot"}
  /\ questions[h].pc = "fetching"
  /\ LET kind == IF Throws(resp) THEN "apology" ELSE "answer"
         S == speak(synth, kind, TRUE, h)
     IN /\ synth' = S
        /\ questions' = [questions EXCEPT ![h] = [Idle EXCEPT !.pc = "speaking"]]
  /\ IF Throws(resp) THEN UNCHANGED conversationHistory
     ELSE /\ NextTurn(conversationHistory) <= MaxTurns
          /\ conversationHistory' = appendTurn(conversationHistory)
  /\ UNCHANGED <<component, videoReady, reader, isStreaming, voiceMuted, sceneMemory, lastDescription,
                 metrics, isProcessing, isAnalyzing, isSpeaking, error, timers,
                 intervalRef, pendingStarts, pendingStops, streamAttached, frameRequests,
                 recognitionVars, cameraReady, srSupported>>

(***************************************************************************)
(* The wake-word listener.                                                 *)
(***************************************************************************)
(* startWakeListener: a new recognizer is started and wakeRecRef is set to *)
(* it; one that is already running keeps running.                          *)
startWakeListener(w) ==
  IF ~srSupported \/ ~isStreaming THEN w
  ELSE [w EXCEPT !.running = @ + 1, !.refRunning = TRUE]

(* A setTimeout(() => startWakeListenerRef.current?.(), ...) that no ref   *)
(* tracks (startStreaming; the manual mic's onerror and onend) fires.      *)
WakeTimeoutFires ==
  /\ component = "streaming"
  /\ wake.timeouts > 0
  /\ (srSupported /\ isStreaming) => wake.running + wake.ending < MaxRecognizers
  /\ wake' = startWakeListener([wake EXCEPT !.timeouts = @ - 1])
  /\ UNCHANGED <<component, conversationHistory, videoReady, reader, isStreaming, voiceMuted, sceneMemory, lastDescription,
                 metrics, isProcessing, isAnalyzing, isSpeaking, error, timers,
                 intervalRef, pendingStarts, pendingStops, streamAttached, frameRequests, synth,
                 questions, mic, isListening, isListeningActive, cameraReady,
                 srSupported>>

(* The timer wakeRestartTimerRef holds fires.                              *)
WakeRestartFires ==
  /\ component = "streaming"
  /\ wake.restartTimer
  /\ (srSupported /\ isStreaming) => wake.running + wake.ending < MaxRecognizers
  /\ wake' = startWakeListener([wake EXCEPT !.restartTimer = FALSE])
  /\ UNCHANGED <<component, conversationHistory, videoReady, reader, isStreaming, voiceMuted, sceneMemory, lastDescription,
                 metrics, isProcessing, isAnalyzing, isSpeaking, error, timers,
                 intervalRef, pendingStarts, pendingStops, streamAttached, frameRequests, synth,
                 questions, mic, isListening, isListeningActive, cameraReady,
                 srSupported>>

(* rec.onend of a wake recognizer: restart after 300 ms while streaming    *)
(* and the manual mic is not open.                                         *)
wakeOnEnd(w) ==
  IF isStreaming /\ ~isListeningActive THEN [w EXCEPT !.restartTimer = TRUE] ELSE w

(* A running wake recognizer ends by itself (`referenced`: it is the one   *)
(* wakeRecRef points to).                                                  *)
WakeEnds(referenced) ==
  /\ component = "streaming"
  /\ IF referenced THEN wake.refRunning
                   ELSE wake.running > (IF wake.refRunning THEN 1 ELSE 0)
  /\ wake' = wakeOnEnd([wake EXCEPT !.running = @ - 1,
                                    !.refRunning = IF referenced THEN FALSE ELSE @])
  /\ UNCHANGED <<component, conversationHistory, videoReady, reader, isStreaming, voiceMuted, sceneMemory, lastDescription,
                 metrics, isProcessing, isAnalyzing, isSpeaking, error, timers,
                 intervalRef, pendingStarts, pendingStops, streamAttached, frameRequests, synth,
                 questions, mic, isListening, isListeningActive, cameraReady,
                 srSupported>>

(* The end event of a wake recognizer that stopWakeListener aborted.       *)
WakeAbortedEnds ==
  /\ component = "streaming"
  /\ wake.ending > 0
  /\ wake' = wakeOnEnd([wake EXCEPT !.ending = @ - 1])
  /\ UNCHANGED <<component, conversationHistory, videoReady, reader, isStreaming, voiceMuted, sceneMemory, lastDescription,
                 metrics, isProcessing, isAnalyzing, isSpeaking, error, timers,
                 intervalRef, pendingStarts, pendingStops, streamAttached, frameRequests, synth,
                 questions, mic, isListening, isListeningActive, cameraReady,
                 srSupported>>

(* rec.onresult of a wake recognizer with one final result that starts     *)
(* with the wake word; `command` is what follows it.  Results that arrive  *)
(* while the synthesizer is speaking are ignored.                          *)
CmdMute == <<"m", "u", "t", "e">>
CmdUnmute == <<"u", "n", "m", "u", "t", "e">>

(* The alternatives `^mute$` and `^unmute$` of the two command patterns;   *)
(* the other phrasings are not among the inputs.                           *)
isMute(command) == command = CmdMute
isUnmute(command) == command = CmdUnmute

WakeCommands == {CmdMute, CmdUnmute, Empty} \cup { toLowerCase(m) : m \in Messages }

(* The branch for the bare wake word: "Yes?", unless voice is muted.       *)
bareWakeWord(S) == IF ~voiceMuted THEN speak(S, "yes", TRUE, 0) ELSE S

WakeResult(command) ==
  /\ component = "streaming"
  /\ wake.running > 0
  /\ ~Speaking(synth)
  /\ CASE isMute(command) ->
            /\ voiceMuted' = TRUE
            /\ synth' = synthSpeak(cancel(synth), "muted", 0)
            /\ isSpeaking' = FALSE
            /\ UNCHANGED <<questions, isProcessing>>
       [] isUnmute(command) ->
            /\ voiceMuted' = FALSE
            /\ synth' = speak(synth, "voiceOn", TRUE, 0)
            /\ UNCHANGED <<questions, isProcessing, isSpeaking>>
       [] command = Empty ->
            /\ synth' = bareWakeWord(synth)
            /\ UNCHANGED <<voiceMuted, questions, isProcessing, isSpeaking>>
       [] OTHER ->
            /\ ~isProcessing
            /\ handleQuestion(command, synth)
            /\ UNCHANGED voiceMuted
  /\ UNCHANGED <<component, conversationHistory, videoReady, reader, isStreaming, sceneMemory, lastDescription, metrics,
                 isAnalyzing, error, timers, intervalRef, pendingStarts, pendingStops,
                 streamAttached, frameRequests, recognitionVars, cameraReady,
                 srSupported>>

(***************************************************************************)
(* The manual microphone (button / Space): startListening of the three     *)
(* components.  Only StreamingMode over /api/chat has a wake listener to   *)
(* pause and restart.                                                      *)
(***************************************************************************)
(* startListening where the browser has no SpeechRecognition.              *)
StartListeningUnsupported ==
  /\ ~srSupported
  /\ ~isListening /\ ~isProcessing
  /\ CanSpeak(synth)
  /\ synth' = speak(synth, "notice", FALSE, 0)
  /\ UNCHANGED <<component, conversationHistory, videoReady, reader, isStreaming, voiceMuted, sceneMemory, lastDescription,
                 metrics, isProcessing, isAnalyzing, isSpeaking, error, timers,
                 intervalRef, pendingStarts, pendingStops, streamAttached, frameRequests,
                 questions, recognitionVars, cameraReady, srSupported>>

(* startListening: the wake listener is paused and a recognizer opened.    *)
(* Demo's onresult handler calls the processUserInput of the render that   *)
(* created it, which reads that render's sceneMemory.                      *)
StartListening ==
  /\ srSupported
  /\ ~isListening /\ ~isProcessing
  /\ mic.open + mic.stopping < MaxRecognizers
  /\ isListeningActive' = (component = "streaming")
  /\ wake' = IF component = "streaming" THEN stopWakeListener(wake) ELSE wake
  /\ isListening' = TRUE
  /\ mic' = [mic EXCEPT !.open = @ + 1,
                        !.memory = IF component = "traditional" THEN sceneMemory ELSE Null]
  /\ UNCHANGED <<component, conversationHistory, videoReady, reader, isStreaming, voiceMuted, sceneMemory, lastDescription,
                 metrics, isProcessing, isAnalyzing, isSpeaking, error, timers,
                 intervalRef, pendingStarts, pendingStops, streamAttached, frameRequests, synth,
                 questions, cameraReady, srSupported>>

(* The 10 s timeout calls rec.stop() on an open recognizer.                *)
MicTimeout ==
  /\ mic.open > 0
  /\ mic' = [mic EXCEPT !.open = @ - 1, !.stopping = @ + 1]
  /\ UNCHANGED <<component, conversationHistory, videoReady, reader, isStreaming, voiceMuted, sceneMemory, lastDescription,
                 metrics, isProcessing, isAnalyzing, isSpeaking, error, timers,
                 intervalRef, pendingStarts, pendingStops, streamAttached, frameRequests, synth,
                 questions, wake, isListening, isListeningActive, cameraReady,
                 srSupported>>

(* rec.onresult with a final transcript: rec.stop() and handleQuestion.    *)
(* `stopped`: the recognizer had been told to stop and returns what it had *)
(* heard by then.                                                          *)
MicFinalResult(stopped, message) ==
  /\ component \in {"streaming", "overshoot"}
  /\ IF stopped THEN mic.stopping > 0 ELSE mic.open > 0
  /\ mic' = IF stopped THEN mic
            ELSE [mic EXCEPT !.open = @ - 1, !.stopping = @ + 1]
  /\ handleQuestion(message, synth)
  /\ UNCHANGED <<component, conversationHistory, videoReady, reader, isStreaming, voiceMuted, sceneMemory, lastDescription,
                 metrics, isAnalyzing, error, timers, intervalRef, pendingStarts, pendingStops,
                 streamAttached, frameRequests, wake, isListening,
                 isListeningActive, cameraReady, srSupported>>

(* The wake listener restarts 300 ms after the manual mic closes.          *)
scheduleWakeStart(w) ==
  IF component = "streaming" /\ isStreaming THEN [w EXCEPT !.timeouts = @ + 1] ELSE w

CanScheduleWakeStart ==
  (component = "streaming" /\ isStreaming) => wake.timeouts < MaxWakeTimeouts

(* rec.onerror of a manual-mic recognizer; its end event follows.          *)
MicErrors == {"no-speech", "not-allowed", "network"}

MicError(stopped, e) ==
  /\ IF stopped THEN mic.stopping > 0 ELSE mic.open > 0
  /\ mic' = IF stopped THEN mic
            ELSE [mic EXCEPT !.open = @ - 1, !.stopping = @ + 1]
  /\ IF e = "no-speech"
       THEN UNCHANGED <<isListening, isListeningActive, synth, wake>>
       ELSE /\ isListening' = FALSE
            /\ isListeningActive' = FALSE
            /\ e = "not-allowed" => CanSpeak(synth)
            /\ synth' = IF e = "not-allowed" THEN speak(synth, "notice", FALSE, 0)
                        ELSE synth
            /\ CanScheduleWakeStart
            /\ wake' = scheduleWakeStart(wake)
  /\ UNCHANGED <<component, conversationHistory, videoReady, reader, isStreaming, voiceMuted, sceneMemory, lastDescription,
                 metrics, isProcessing, isAnalyzing, isSpeaking, error, timers,
                 intervalRef, pendingStarts, pendingStops, streamAttached, frameRequests,
                 questions, cameraReady, srSupported>>

(* rec.onend of a manual-mic recognizer.                                   *)
MicEnd ==
  /\ mic.stopping > 0
  /\ mic' = [mic EXCEPT !.stopping = @ - 1,
                        !.memory = IF mic.open + mic.stopping = 1 THEN Null ELSE @]
  /\ isListening' = FALSE
  /\ isListeningActive' = FALSE
  /\ CanScheduleWakeStart
  /\ wake' = scheduleWakeStart(wake)
  /\ UNCHANGED <<component, conversationHistory, videoReady, reader, isStreaming, voiceMuted, sceneMemory, lastDescription,
                 metrics, isProcessing, isAnalyzing, isSpeaking, error, timers,
                 intervalRef, pendingStarts, pendingStops, streamAttached, frameRequests, synth,
                 questions, cameraReady, srSupported>>

(***************************************************************************)
(* StreamingMode over the RealtimeVision SDK.                              *)
(***************************************************************************)
(* startStreaming up to `await vision.start()`; without an API key it only *)
(* shows an error.                                                         *)
OvershootStartBegin(apiKey) ==
  /\ component = "overshoot"
  /\ ~isStreaming
  /\ pendingStarts < MaxPendingStarts
  /\ error' = ~apiKey
  /\ pendingStarts' = IF apiKey THEN pendingStarts + 1 ELSE pendingStarts
  /\ UNCHANGED <<component, conversationHistory, videoReady, reader, isStreaming, voiceMuted, sceneMemory, lastDescription,
                 metrics, isProcessing, isAnalyzing, isSpeaking, timers, intervalRef,
                 pendingStops, streamAttached, frameRequests, synth, questions,
                 recognitionVars, cameraReady, srSupported>>

(* vision.start() rejected: the catch block.                               *)
OvershootStartFailed ==
  /\ component = "overshoot"
  /\ pendingStarts > 0
  /\ pendingStarts' = pendingStarts - 1
  /\ error' = TRUE
  /\ isStreaming' = FALSE
  /\ UNCHANGED <<component, conversationHistory, videoReady, reader, voiceMuted, sceneMemory, lastDescription, metrics,
                 isProcessing, isAnalyzing, isSpeaking, timers, intervalRef,
                 pendingStops, streamAttached, frameRequests, synth, questions,
                 recognitionVars, cameraReady, srSupported>>

(* vision.start() resolved: the rest of startStreaming.                    *)
OvershootStartResolved ==
  /\ component = "overshoot"
  /\ pendingStarts > 0
  /\ FreeTimers # {}
  /\ pendingStarts' = pendingStarts - 1
  /\ \E t \in FreeTimers :
       /\ \A u \in FreeTimers : t <= u
       /\ timers' = timers \cup {t}
       /\ intervalRef' = t
  /\ isStreaming' = TRUE
  /\ metrics' = [framesProcessed |-> 0, newDescriptions |-> 0]
  /\ streamAttached' = TRUE
  /\ synth' = speak(synth, "intro", TRUE, 0)
  /\ UNCHANGED <<component, conversationHistory, videoReady, reader, voiceMuted, sceneMemory, lastDescription, isProcessing,
                 isAnalyzing, isSpeaking, error, pendingStops, frameRequests,
                 questions, recognitionVars, cameraReady, srSupported>>

(* onResult(result) of a running instance; `text` is result.result.        *)
OvershootResults == {Null, TextBlank, TextABC, TextSpABC, TextABCD, TextABDotCD}

OnResult(ok, text) ==
  /\ component = "overshoot"
  /\ timers # {}
  /\ metrics.framesProcessed < MaxFrames
  /\ LET description == trim(text)
         narrate == ~isSpeaking /\ ~isProcessing
     IN
       IF ~ok \/ text = Null \/ trim(text) = Empty
         THEN UNCHANGED <<metrics, lastDescription, sceneMemory, synth, isSpeaking>>
       ELSE IF AboveThreshold(wordSimilarity(description, lastDescription))
         THEN /\ metrics' = countFrame(metrics)
              /\ UNCHANGED <<lastDescription, sceneMemory, synth, isSpeaking>>
       ELSE /\ metrics' = countDescription(countFrame(metrics))
            /\ lastDescription' = description
            /\ sceneMemory' = description
            /\ narrate => CanSpeak(synth)
            /\ synth' = IF narrate THEN speak(synth, "scene", FALSE, 0) ELSE synth
            /\ isSpeaking' = IF narrate THEN TRUE ELSE isSpeaking
  /\ UNCHANGED <<component, conversationHistory, videoReady, reader, isStreaming, voiceMuted, isProcessing, isAnalyzing, error,
                 timers, intervalRef, pendingStarts, pendingStops, streamAttached,
                 frameRequests, questions, recognitionVars, cameraReady, srSupported>>

(* onError(err) of a running instance.                                     *)
OnError ==
  /\ component = "overshoot"
  /\ timers # {}
  /\ error' = TRUE
  /\ isStreaming' = FALSE
  /\ UNCHANGED <<component, conversationHistory, videoReady, reader, voiceMuted, sceneMemory, lastDescription, metrics,
                 isProcessing, isAnalyzing, isSpeaking, timers, intervalRef,
                 pendingStarts, pendingStops, streamAttached, frameRequests, synth,
                 questions, recognitionVars, cameraReady, srSupported>>

(* stopStreaming up to `await visionRef.current.stop()`; with no instance  *)
(* referenced it runs to its end.                                          *)
OvershootStopBegin ==
  /\ component = "overshoot"
  /\ isStreaming
  /\ intervalRef \notin pendingStops
  /\ IF intervalRef # 0
       THEN /\ synth' = cancel(synth)
            /\ pendingStops' = pendingStops \cup {intervalRef}
            /\ UNCHANGED <<isStreaming, streamAttached>>
       ELSE /\ synth' = speak(cancel(synth), "stopped", TRUE, 0)
            /\ streamAttached' = FALSE
            /\ isStreaming' = FALSE
            /\ UNCHANGED pendingStops
  /\ UNCHANGED <<component, conversationHistory, videoReady, reader, voiceMuted, sceneMemory, lastDescription, metrics,
                 isProcessing, isAnalyzing, isSpeaking, error, timers, intervalRef,
                 pendingStarts, frameRequests, questions, recognitionVars,
                 cameraReady, srSupported>>

(* The instance has stopped: the rest of stopStreaming.                    *)
OvershootStopResolved(t) ==
  /\ component = "overshoot"
  /\ t \in pendingStops
  /\ pendingStops' = pendingStops \ {t}
  /\ timers' = timers \ {t}
  /\ intervalRef' = 0
  /\ streamAttached' = FALSE
  /\ isStreaming' = FALSE
  /\ synth' = speak(synth, "stopped", TRUE, 0)
  /\ UNCHANGED <<component, conversationHistory, videoReady, reader, voiceMuted, sceneMemory, lastDescription, metrics,
                 isProcessing, isAnalyzing, isSpeaking, error, pendingStarts,
                 frameRequests, questions, recognitionVars, cameraReady, srSupported>>

(***************************************************************************)
(* Demo: processUserInput and streamResponse.                              *)
(***************************************************************************)
processUserInputUnguarded(spokenText, memory, captured) ==
  /\ FreeHandlers # {}
  /\ isProcessing' = TRUE
  /\ synth' = cancel(synth)
  /\ questions' = [questions EXCEPT ![NewHandler] =
                     [Idle EXCEPT !.pc = "fetching",
                                  !.image = needsCapture(spokenText) /\ captured]]

(* processUserInput(spokenText) up to its first await.  `memory` is the    *)
(* sceneMemory its closure holds, `captured` whether captureImage returns  *)
(* an image (it returns null when drawing the frame throws).               *)
processUserInput(spokenText, memory, captured) ==
  LET capture == needsCapture(spokenText)
  IN
  /\ FreeHandlers # {}
  /\ isProcessing' = TRUE
  /\ IF ~capture /\ Falsy(memory)
       THEN /\ synth' = speak(synth, "guidance", TRUE, NewHandler)
            /\ questions' = [questions EXCEPT ![NewHandler] = [Idle EXCEPT !.pc = "speaking"]]
     ELSE IF capture /\ ~cameraReady
       THEN /\ synth' = speak(synth, "unavailable", TRUE, NewHandler)
            /\ questions' = [questions EXCEPT ![NewHandler] = [Idle EXCEPT !.pc = "speaking"]]
     ELSE /\ synth' = cancel(synth)
          /\ questions' = [questions EXCEPT ![NewHandler] =
                             [Idle EXCEPT !.pc = "fetching", !.image = capture /\ captured]]

(* rec.onresult with a final transcript, in Demo.                          *)
DemoFinalResult(stopped, message, captured) ==
  /\ component = "traditional"
  /\ IF stopped THEN mic.stopping > 0 ELSE mic.open > 0
  /\ mic' = IF stopped THEN mic
            ELSE [mic EXCEPT !.open = @ - 1, !.stopping = @ + 1]
  /\ processUserInput(message, mic.memory, captured)
  /\ UNCHANGED <<component, conversationHistory, videoReady, reader, isStreaming, voiceMuted, sceneMemory, lastDescription,
                 metrics, isAnalyzing, isSpeaking, error, timers, intervalRef,
                 pendingStarts, pendingStops, streamAttached, frameRequests, wake,
                 isListening, isListeningActive, cameraReady, srSupported>>

(* The catch block of processUserInput: cancel, then the apology.          *)
catchSpeak(h) ==
  /\ synth' = speak(cancel(synth), "apology", TRUE, h)
  /\ questions' = [questions EXCEPT ![h] = [Idle EXCEPT !.pc = "speaking"]]

RECURSIVE speakAll(_, _)
speakAll(S, n) == IF n = 0 THEN S ELSE speakAll(synthSpeak(S, "sentence", 0), n - 1)

(* `if (image) setSceneMemory(fullText)` at the end of streamResponse.      *)
updateSceneMemoryAlways(image, fullText, memory) == fullText

updateSceneMemory(image, fullText, memory) == IF image THEN fullText ELSE memory

(* streamResponse from `await fetch` to its return: a rejected fetch, a    *)
(* non-OK status or a stream that breaks throws into processUserInput's    *)
(* catch block; otherwise every event is read, the sentences are queued,   *)
(* and a visual query's fullText becomes the scene memory.                 *)
DemoResponse(h, resp) ==
  /\ component = "traditional"
  /\ questions[h].pc = "fetching"
  /\ IF Throws(resp)
       THEN /\ catchSpeak(h)
            /\ UNCHANGED <<sceneMemory, conversationHistory>>
       ELSE LET read == streamEvents(resp.events, [buffer |-> Empty, spoken |-> << >>])
                after == flush(read, TRUE)
            IN /\ Len(synth.queue) + Len(after.spoken) <= MaxUtterances
               /\ NextTurn(conversationHistory) <= MaxTurns
               /\ synth' = speakAll(synth, Len(after.spoken))
               /\ sceneMemory' = updateSceneMemory(questions[h].image,
                                                   collectSSE(resp.events), sceneMemory)
               /\ conversationHistory' = appendTurn(conversationHistory)
               /\ questions' = [questions EXCEPT ![h] = [Idle EXCEPT !.pc = "draining"]]
  /\ UNCHANGED <<component, videoReady, reader, isStreaming, voiceMuted, lastDescription, metrics,
                 isProcessing, isAnalyzing, isSpeaking, error, timers, intervalRef,
                 pendingStarts, pendingStops, streamAttached, frameRequests,
                 recognitionVars, cameraReady, srSupported>>

(* The poll finds the synthesizer silent, or the 15 s timeout resolves the *)
(* wait; then the finally block.                                           *)
DemoDrained(h, timedOut) ==
  /\ component = "traditional"
  /\ questions[h].pc = "draining"
  /\ timedOut \/ ~Speaking(synth)
  /\ questions' = [questions EXCEPT ![h] = Idle]
  /\ isProcessing' = FALSE
  /\ UNCHANGED <<component, conversationHistory, videoReady, reader, isStreaming, voiceMuted, sceneMemory, lastDescription,
                 metrics, isAnalyzing, isSpeaking, error, timers, intervalRef,
                 pendingStarts, pendingStops, streamAttached, frameRequests, synth,
                 recognitionVars, cameraReady, srSupported>>

(* toggleMute: the button shown while streaming.                           *)
ToggleMute ==
  /\ component = "streaming"
  /\ isStreaming
  /\ voiceMuted' = ~voiceMuted
  /\ IF ~voiceMuted
       THEN /\ synth' = cancel(synth)
            /\ isSpeaking' = FALSE
       ELSE /\ synth' = speak(synth, "voiceOn", TRUE, 0)
            /\ UNCHANGED isSpeaking
  /\ UNCHANGED <<component, conversationHistory, videoReady, reader, isStreaming, sceneMemory, lastDescription, metrics,
                 isProcessing, isAnalyzing, error, timers, intervalRef,
                 pendingStarts, pendingStops, streamAttached, frameRequests, questions,
                 recognitionVars, cameraReady, srSupported>>

(***************************************************************************)
(* The bytes of an event stream: what the server's res.write puts on the   *)
(* wire, and what the read loops of collectSSE and streamResponse make of  *)
(* one chunk that reader.read() returns.                                   *)
(***************************************************************************)
Quote == "\""
Backslash == "\\"
Newline == "\n"

(* JSON.stringify of a string's characters.                                *)
RECURSIVE escape(_)
escape(text) ==
  IF text = Empty THEN Empty
  ELSE (CASE Head(text) = Newline -> <<Backslash, "n">>
          [] Head(text) = Quote -> <<Backslash, Quote>>
          [] Head(text) = Backslash -> <<Backslash, Backslash>>
          [] OTHER -> <<Head(text)>>) \o escape(Tail(text))

TextOpen == <<"{", "\"", "t", "e", "x", "t", "\"", ":", "\"">>
TextClose == <<"\"", "}">>
DoneJson == <<"{", "\"", "d", "o", "n", "e", "\"", ":", "t", "r", "u", "e", ",", "\"", "t", "o", "o", "l", "s", "\"", ":", "[", "]", "}">>
ErrorJson == <<"{", "\"", "e", "r", "r", "o", "r", "\"", ":", "\"", "x", "\"", "}">>
DataPrefix == <<"d", "a", "t", "a", ":", " ">>

(* JSON.stringify({ text }), ({ done: true, tools }), ({ error }).         *)
stringify(event) ==
  CASE event.type = "text" -> TextOpen \o escape(event.text) \o TextClose
    [] event.type = "done" -> DoneJson
    [] OTHER -> ErrorJson

(* res.write(`data: ${JSON.stringify(...)}\n\n`) for each event.           *)
RECURSIVE write(_)
write(events) ==
  IF events = << >> THEN Empty
  ELSE DataPrefix \o stringify(Head(events)) \o <<Newline, Newline>> \o write(Tail(events))

(* chunk.split('\n').                                                      *)
RECURSIVE splitLines(_, _)
splitLines(chunk, line) ==
  IF chunk = Empty THEN <<line>>
  ELSE IF Head(chunk) = Newline THEN <<line>> \o splitLines(Tail(chunk), Empty)
  ELSE splitLines(Tail(chunk), Append(line, Head(chunk)))

(* The characters of a JSON string body, Null where it is not one.         *)
RECURSIVE unescape(_)
unescape(body) ==
  IF body = Empty THEN Empty
  ELSE IF Head(body) = Quote THEN Null
  ELSE IF Head(body) = Backslash
    THEN IF Len(body) < 2 \/ body[2] \notin {"n", Quote, Backslash} THEN Null
         ELSE LET rest == unescape(SubSeq(body, 3, Len(body)))
              IN IF rest = Null THEN Null
                 ELSE <<IF body[2] = "n" THEN Newline ELSE body[2]>> \o rest
  ELSE LET rest == unescape(Tail(body))
       IN IF rest = Null THEN Null ELSE <<Head(body)>> \o rest

SkippedLine == [type |-> "skipped", text |-> Empty]

(* JSON.parse of what follows `data: `; a SyntaxError is caught and the    *)
(* line skipped.                                                           *)
parse(json) ==
  IF json = DoneJson THEN DoneEvent
  ELSE IF json = ErrorJson THEN ErrorEvent
  ELSE IF /\ Len(json) >= Len(TextOpen) + Len(TextClose)
          /\ startsWith(json, TextOpen)
          /\ SubSeq(json, Len(json) - Len(TextClose) + 1, Len(json)) = TextClose
    THEN LET text == unescape(SubSeq(json, Len(TextOpen) + 1, Len(json) - Len(TextClose)))
         IN IF text = Null THEN SkippedLine ELSE TextEvent(text)
  ELSE SkippedLine

(* One line of a decoded chunk: `if (!line.startsWith('data: ')) continue`. *)
parseLine(line) ==
  IF ~startsWith(line, DataPrefix) THEN SkippedLine
  ELSE parse(SubSeq(line, Len(DataPrefix) + 1, Len(line)))

(* The events the loop body sees in one chunk.                             *)
decodeChunk(value) ==
  LET lines == splitLines(value, Empty)
  IN [i \in 1..Len(lines) |-> parseLine(lines[i])]

(***************************************************************************)
(* streamResponse's read loop, one `data: ` line at a time.                *)
(***************************************************************************)
ChunkA == <<"a", ".">>
ChunkB == <<" ", "b">>
ChunkDecimal == <<"3", ".", "5">>
ChunkTwo == <<"a", ".", " ", "b", "?", " ", "c">>
ChunkBang == <<"!", "\n">>
ChunkHello ==
  <<"H", "e", "l", "l", "o", " ", "w", "o", "r", "l", "d", ".", " ", "H", "o", "w", " ",
    "a", "r", "e">>
ChunkYou == <<" ", "y", "o", "u", "?", " ">>
Chunks == {ChunkA, ChunkB, ChunkDecimal, ChunkTwo, ChunkBang, ChunkHello, ChunkYou, TextBlank}

readerVars ==
  <<component, isStreaming, voiceMuted, sceneMemory, lastDescription, metrics,
    isProcessing, isAnalyzing, isSpeaking, error, timers, intervalRef,
    pendingStarts, pendingStops, streamAttached, frameRequests, synth, questions,
    wake, mic, isListening, isListeningActive, cameraReady, srSupported,
    conversationHistory, videoReady>>

(* streamResponse is called: fullText = '', buffer = ''.                   *)
ReaderOpen ==
  /\ component = "traditional"
  /\ ~reader.open
  /\ reader' = [NoReader EXCEPT !.open = TRUE]
  /\ UNCHANGED readerVars

(* A line `data: {"text": chunk}`.                                         *)
ReaderText(chunk) ==
  /\ component = "traditional"
  /\ reader.open
  /\ reader.reads < MaxChunks
  /\ reader' = [reader EXCEPT !.st = onEvent(@, TextEvent(chunk)),
                               !.fullText = @ \o chunk,
                               !.reads = @ + 1]
  /\ UNCHANGED readerVars

(* A line `data: {"done": true}`.                                          *)
ReaderDone ==
  /\ component = "traditional"
  /\ reader.open
  /\ reader.reads < MaxChunks
  /\ reader' = [reader EXCEPT !.st = onEvent(@, DoneEvent), !.reads = @ + 1]
  /\ UNCHANGED readerVars

(* reader.read() reports the end of the stream: flush(true) after the loop *)
ReaderEnd ==
  /\ component = "traditional"
  /\ reader.open
  /\ reader.wire = Empty
  /\ reader' = [reader EXCEPT !.st = flush(@, TRUE), !.open = FALSE]
  /\ UNCHANGED readerVars

(* streamResponse is called and the server answers: the events it writes   *)
(* are on the wire.                                                        *)
StreamOpen(upstream) ==
  /\ component = "traditional"
  /\ ~reader.open
  /\ LET events == ChatHandler(TRUE, upstream).events
     IN reader' = [NoReader EXCEPT !.open = TRUE, !.events = events,
                                   !.wire = write(events)]
  /\ UNCHANGED readerVars

(* reader.read() returns the next n bytes of the wire: the loop body over  *)
(* the lines of the decoded chunk.                                         *)
ReaderRead(n) ==
  /\ component = "traditional"
  /\ reader.open
  /\ n \in 1..Len(reader.wire)
  /\ LET seen == decodeChunk(SubSeq(reader.wire, 1, n))
     IN reader' = [reader EXCEPT !.st = streamEvents(seen, @),
                                 !.fullText = @ \o collectSSE(seen),
                                 !.wire = SubSeq(@, n + 1, Len(@))]
  /\ UNCHANGED readerVars

Next ==
  \/ StartStreamingBegin
  \/ StartStreamingDenied
  \/ StartStreamingGranted
  \/ TickSample
  \/ \E age \in {"live", "stale"}, resp \in Responses : FrameResponse(age, resp)
  \/ StopStreaming
  \/ UtteranceEnd
  \/ \E u \in synth.errors : UtteranceError(u)
  \/ \E h \in Handlers, resp \in Responses : QuestionResponse(h, resp)
  \/ WakeTimeoutFires
  \/ WakeRestartFires
  \/ \E referenced \in BOOLEAN : WakeEnds(referenced)
  \/ WakeAbortedEnds
  \/ \E command \in WakeCommands : WakeResult(command)
  \/ StartListeningUnsupported
  \/ StartListening
  \/ MicTimeout
  \/ \E stopped \in BOOLEAN, message \in Messages : MicFinalResult(stopped, message)
  \/ \E stopped \in BOOLEAN, e \in MicErrors : MicError(stopped, e)
  \/ MicEnd
  \/ ToggleMute
  \/ \E apiKey \in BOOLEAN : OvershootStartBegin(apiKey)
  \/ OvershootStartFailed
  \/ OvershootStartResolved
  \/ \E ok \in BOOLEAN, text \in OvershootResults : OnResult(ok, text)
  \/ OnError
  \/ OvershootStopBegin
  \/ \E t \in pendingStops : OvershootStopResolved(t)
  \/ \E stopped \in BOOLEAN, message \in Messages, captured \in BOOLEAN :
       DemoFinalResult(stopped, message, captured)
  \/ \E h \in Handlers, resp \in Responses : DemoResponse(h, resp)
  \/ \E h \in Handlers, timedOut \in BOOLEAN : DemoDrained(h, timedOut)
  \/ VideoLoaded
  \/ ReaderOpen
  \/ \E chunk \in Chunks : ReaderText(chunk)
  \/ ReaderDone
  \/ ReaderEnd
  \/ \E upstream \in Upstreams : StreamOpen(upstream)
  \/ \E n \in 1..MaxRead : ReaderRead(n)

Spec == Init /\ [][Next]_vars

(***************************************************************************)
(* The sampler: both StreamingMode components, with the speech events, the *)
(* wake listener's commands and the mute button, the user asking nothing.  *)
(***************************************************************************)
InitSampler == Init /\ component \in {"streaming", "overshoot"}

NextSampler ==
  \/ StartStreamingBegin
  \/ StartStreamingDenied
  \/ StartStreamingGranted
  \/ VideoLoaded
  \/ TickSample
  \/ \E age \in {"live", "stale"}, resp \in Responses : FrameResponse(age, resp)
  \/ StopStreaming
  \/ UtteranceEnd
  \/ \E u \in synth.errors : UtteranceError(u)
  \/ WakeTimeoutFires
  \/ WakeRestartFires
  \/ \E referenced \in BOOLEAN : WakeEnds(referenced)
  \/ WakeAbortedEnds
  \/ \E command \in {CmdMute, CmdUnmute, Empty} : WakeResult(command)
  \/ StartListeningUnsupported
  \/ ToggleMute
  \/ \E apiKey \in BOOLEAN : OvershootStartBegin(apiKey)
  \/ OvershootStartFailed
  \/ OvershootStartResolved
  \/ \E ok \in BOOLEAN, text \in OvershootResults : OnResult(ok, text)
  \/ OnError
  \/ OvershootStopBegin
  \/ \E t \in pendingStops : OvershootStopResolved(t)

SpecSampler == InitSampler /\ [][NextSampler]_vars

(***************************************************************************)
(* Voice: the microphone, the wake listener and the questions of the three *)
(* components, the camera of StreamingMode sampling nothing.               *)
(***************************************************************************)
NextVoice ==
  \/ StartStreamingAlone
  \/ StartStreamingDenied
  \/ StartStreamingGranted
  \/ StopStreaming
  \/ UtteranceEnd
  \/ \E u \in synth.errors : UtteranceError(u)
  \/ \E h \in Handlers, resp \in Responses : QuestionResponse(h, resp)
  \/ WakeTimeoutFires
  \/ WakeRestartFires
  \/ \E referenced \in BOOLEAN : WakeEnds(referenced)
  \/ WakeAbortedEnds
  \/ \E command \in WakeCommands : WakeResult(command)
  \/ StartListeningUnsupported
  \/ StartListening
  \/ MicTimeout
  \/ \E stopped \in BOOLEAN, message \in Messages : MicFinalResult(stopped, message)
  \/ \E stopped \in BOOLEAN, e \in MicErrors : MicError(stopped, e)
  \/ MicEnd
  \/ ToggleMute
  \/ \E stopped \in BOOLEAN, message \in Messages, captured \in BOOLEAN :
       DemoFinalResult(stopped, message, captured)
  \/ \E h \in Handlers, resp \in Responses : DemoResponse(h, resp)
  \/ \E h \in Handlers, timedOut \in BOOLEAN : DemoDrained(h, timedOut)

SpecVoice == Init /\ [][NextVoice]_vars

(***************************************************************************)
(* One streaming session of StreamingMode over /api/chat that is never     *)
(* stopped: the sampler, the microphone and the questions together.        *)
(***************************************************************************)
InitSession == Init /\ component = "streaming" /\ srSupported

NextSession ==
  \/ StartStreamingAlone
  \/ StartStreamingGranted
  \/ VideoLoaded
  \/ TickSample
  \/ \E resp \in Responses : FrameResponse("live", resp)
  \/ UtteranceEnd
  \/ \E u \in synth.errors : UtteranceError(u)
  \/ \E h \in Handlers, resp \in Responses : QuestionResponse(h, resp)
  \/ WakeTimeoutFires
  \/ WakeRestartFires
  \/ \E referenced \in BOOLEAN : WakeEnds(referenced)
  \/ WakeAbortedEnds
  \/ \E command \in WakeCommands : WakeResult(command)
  \/ StartListening
  \/ MicTimeout
  \/ \E stopped \in BOOLEAN, message \in Messages : MicFinalResult(stopped, message)
  \/ \E stopped \in BOOLEAN, e \in MicErrors : MicError(stopped, e)
  \/ MicEnd
  \/ ToggleMute

SpecSession == InitSession /\ [][NextSession]_vars

(***************************************************************************)
(* The sentence segmenter alone: one streamResponse call after another     *)
(* reading the text chunks of its stream.                                  *)
(***************************************************************************)
InitSegmenter == Init /\ component = "traditional"

NextSegmenter ==
  \/ ReaderOpen
  \/ \E chunk \in Chunks : ReaderText(chunk)
  \/ ReaderDone
  \/ ReaderEnd

SpecSegmenter == InitSegmenter /\ [][NextSegmenter]_vars

(***************************************************************************)
(* Asking: the manual microphone and the question handlers of the three    *)
(* components, under the assumptions that every request eventually         *)
(* completes or fails, every utterance eventually ends or reports an       *)
(* error, and the drain wait's poll or 15 s timeout eventually runs.       *)
(***************************************************************************)
NextAsking ==
  \/ StartListening
  \/ MicTimeout
  \/ \E stopped \in BOOLEAN, message \in Messages : MicFinalResult(stopped, message)
  \/ \E stopped \in BOOLEAN, e \in MicErrors : MicError(stopped, e)
  \/ MicEnd
  \/ \E stopped \in BOOLEAN, message \in Messages, captured \in BOOLEAN :
       DemoFinalResult(stopped, message, captured)
  \/ \E h \in Handlers, resp \in Responses : QuestionResponse(h, resp)
  \/ \E h \in Handlers, resp \in Responses : DemoResponse(h, resp)
  \/ \E h \in Handlers, timedOut \in BOOLEAN : DemoDrained(h, timedOut)
  \/ UtteranceEnd
  \/ \E u \in synth.errors : UtteranceError(u)

HandlerUtterances ==
  { Utterance(kind, h) : kind \in {"answer", "apology", "guidance", "unavailable"},
                         h \in Handlers }

FairAsking ==
  /\ WF_vars(UtteranceEnd)
  /\ \A u \in HandlerUtterances : WF_vars(UtteranceError(u))
  /\ \A h \in Handlers :
       /\ WF_vars(\E resp \in Responses : QuestionResponse(h, resp))
       /\ WF_vars(\E resp \in Responses : DemoResponse(h, resp))
       /\ WF_vars(\E timedOut \in BOOLEAN : DemoDrained(h, timedOut))

SpecAsking == Init /\ [][NextAsking]_vars /\ FairAsking

(***************************************************************************)
(* Scene memory: the writers of sceneMemory (the sampler of StreamingMode  *)
(* and Demo's visual questions) together with the questions that read it.  *)
(***************************************************************************)
NextMemory ==
  \/ StartStreamingAlone
  \/ StartStreamingGranted
  \/ VideoLoaded
  \/ TickSample
  \/ \E resp \in Responses : FrameResponse("live", resp)
  \/ WakeTimeoutFires
  \/ StartListening
  \/ \E stopped \in BOOLEAN, message \in Messages : MicFinalResult(stopped, message)
  \/ MicEnd
  \/ \E h \in Handlers, resp \in Responses : QuestionResponse(h, resp)
  \/ \E stopped \in BOOLEAN, message \in Messages, captured \in BOOLEAN :
       DemoFinalResult(stopped, message, captured)
  \/ \E h \in Handlers, resp \in Responses : DemoResponse(h, resp)
  \/ \E h \in Handlers, timedOut \in BOOLEAN : DemoDrained(h, timedOut)
  \/ UtteranceEnd
  \/ \E u \in synth.errors : UtteranceError(u)

SpecMemory == Init /\ [][NextMemory]_vars

(***************************************************************************)
(* The transport: one response stream after another, delivered to the read *)
(* loop in chunks of any size.                                             *)
(***************************************************************************)
NextTransport ==
  \/ \E upstream \in Upstreams : StreamOpen(upstream)
  \/ \E n \in 1..MaxRead : ReaderRead(n)
  \/ ReaderEnd

SpecTransport == InitSegmenter /\ [][NextTransport]_vars

(***************************************************************************)
(* The claims.                                                             *)
(***************************************************************************)
Ages == {"live", "stale"}

(* C1: at most one frame-analysis request is in flight in every reachable  *)
(* state of the sampler, whatever the interleaving of starts, ticks,       *)
(* completions and stops.                                                  *)
C1_AtMostOneInFlight == Outstanding <= 1

(* C2: the result of a request that was outstanding when stopStreaming ran *)
(* is discarded on arrival: it changes neither the scene memory, nor       *)
(* lastDescriptionRef, nor the accepted-description counter, and nothing   *)
(* is narrated.                                                            *)
C2_StaleResultDiscarded ==
  [][ \A resp \in Responses :
        FrameResponse("stale", resp) =>
          /\ sceneMemory' = sceneMemory
          /\ lastDescription' = lastDescription
          /\ metrics'.newDescriptions = metrics.newDescriptions
          /\ synth' = synth ]_vars

(* C3: a completed analysis whose description is not blank is accepted     *)
(* when there is no previous description or the similarity to it is at     *)
(* most 3/4 (scene memory becomes the new text, newDescriptions grows by   *)
(* exactly 1) and rejected when the similarity is above 3/4 (scene memory  *)
(* and newDescriptions unchanged); in the fetch sampler and in onResult.   *)
C3_Decision(description) ==
  LET sim == wordSimilarity(description, lastDescription)
  IN IF lastDescription = Empty \/ 4 * sim[1] <= 3 * sim[2]
       THEN /\ sceneMemory' = description
            /\ lastDescription' = description
            /\ metrics'.newDescriptions = metrics.newDescriptions + 1
       ELSE /\ sceneMemory' = sceneMemory
            /\ lastDescription' = lastDescription
            /\ metrics'.newDescriptions = metrics.newDescriptions

C3_AcceptOrReject ==
  [][ /\ \A age \in Ages, resp \in Responses :
           ( /\ FrameResponse(age, resp)
             /\ ~Throws(resp)
             /\ trim(collectSSE(resp.events)) # Empty )
             => C3_Decision(collectSSE(resp.events))
      /\ \A text \in OvershootResults \ {Null} :
           (OnResult(TRUE, text) /\ trim(text) # Empty) => C3_Decision(trim(text)) ]_vars

(* One description of this session was accepted and one rejected.          *)
C3_Witness ==
  /\ metrics.framesProcessed = 2
  /\ metrics.newDescriptions = 1
  /\ sceneMemory = lastDescription
  /\ lastDescription # Empty

(* C4: a failed analysis during sampling is absorbed: nothing is shown or  *)
(* spoken, the session stays in the streaming state with its timer, and    *)
(* the in-flight flag is clear afterwards.                                 *)
C4_FailureAbsorbed ==
  [][ ( \/ \E age \in Ages, resp \in Responses : Throws(resp) /\ FrameResponse(age, resp)
        \/ OnError )
        => /\ error' = error
           /\ synth' = synth
           /\ isStreaming' = isStreaming
           /\ timers' = timers
           /\ ~isAnalyzing' ]_vars

(* C5: an utterance that matches no capture trigger, handled while the     *)
(* scene memory is absent, gets the NoMemory guidance and sends no request *)
(* to /api/chat; in processUserInput and in handleQuestion.                *)
C5_NoMemoryGuidance ==
  [][ \A message \in Messages, stopped \in BOOLEAN :
        ( /\ ~needsCapture(message)
          /\ Falsy(sceneMemory)
          /\ \/ MicFinalResult(stopped, message)
             \/ WakeResult(toLowerCase(message))
             \/ \E captured \in BOOLEAN : DemoFinalResult(stopped, message, captured) )
        => /\ \E u \in Range(synth'.queue) : u.kind = "guidance"
           /\ \A h \in Handlers :
                questions'[h].pc = "fetching" => questions[h].pc = "fetching" ]_vars

(* C6: when the chat call made for a question fails (the fetch rejects,    *)
(* the status is not OK, the stream breaks, or the server reports an       *)
(* upstream failure in the stream it has opened), the apology is spoken    *)
(* with priority.                                                          *)
C6_Failed(resp) ==
  Throws(resp) \/ \E i \in DOMAIN resp.events : resp.events[i].type = "error"

C6_FailedCallApology ==
  [][ \A h \in Handlers, resp \in Responses :
        (C6_Failed(resp) /\ (QuestionResponse(h, resp) \/ DemoResponse(h, resp)))
          => synth'.queue = <<Utterance("apology", h)>> ]_vars

(* C7: while a question is being handled (from its start until its spoken  *)
(* answer has finished) no sampler step starts a narration or cancels      *)
(* speech, and when a question starts no narration is left playing.        *)
C7_QuestionInProgress == \E h \in Handlers : questions[h].pc # "idle"

C7_QuestionPriority ==
  [][ /\ ( /\ C7_QuestionInProgress
           /\ \E age \in Ages, resp \in Responses : FrameResponse(age, resp) )
          => synth' = synth
      /\ (\E h \in Handlers : questions[h].pc = "idle" /\ questions'[h].pc = "fetching")
          => \A u \in Range(synth'.queue) : u.kind # "scene" ]_vars

(* C8: a speak call with priority leaves its utterance alone in the        *)
(* synthesizer, whatever was playing or queued having been cancelled (so   *)
(* of two successive priority calls only the second plays in full), and    *)
(* the promise of a cancelled call still resolves: the error event of its  *)
(* utterance is pending, so no handler waits for an utterance that is      *)
(* neither queued nor about to report.                                     *)
C8_PrioritySpeak ==
  /\ [](\A h \in Handlers :
          questions[h].pc = "speaking" =>
            \E u \in Range(synth.queue) \cup synth.errors : u.owner = h)
  /\ [][ ( /\ synth'.queue # synth.queue
           /\ synth'.queue # << >>
           /\ (synth.queue = << >> \/ synth'.queue # Tail(synth.queue))
           /\ synth'.queue[Len(synth'.queue)].kind \in PriorityKinds )
          => /\ Len(synth'.queue) = 1
             /\ \A u \in Range(synth.queue) : Awaited(u) => u \in synth'.errors ]_vars

(* A priority call has cancelled an earlier priority utterance, whose      *)
(* error event is still to come, and its own utterance is playing.         *)
C8_Witness ==
  /\ Len(synth.queue) = 1
  /\ synth.queue[1].kind \in PriorityKinds
  /\ \E u \in synth.errors : u.kind \in PriorityKinds /\ u # synth.queue[1]

(* C9: while voice is muted nothing that was queued without priority (a    *)
(* scene description, a notice) is in the synthesizer.                     *)
C9_MutedNonPrioritySilent ==
  voiceMuted => \A u \in Range(synth.queue) : u.kind \notin {"scene", "notice", "sentence"}

(* C10 as stated: while voice is muted every priority utterance is still   *)
(* played: the answers and apologies to questions, the acknowledgements    *)
(* of the controls, and the acknowledgement of a bare wake word (whenever  *)
(* the wake listener can hear it, handling it queues "Yes?").              *)
C10_WakeListening == component = "streaming" /\ wake.running > 0 /\ ~Speaking(synth)

C10_MutedEveryPriorityPlays ==
  /\ [][ voiceMuted =>
           /\ \A h \in Handlers, resp \in Responses :
                QuestionResponse(h, resp) =>
                  /\ Len(synth'.queue) = 1
                  /\ synth'.queue[1].owner = h
                  /\ synth'.queue[1].kind \in {"answer", "apology"}
           /\ StopStreaming => synth'.queue = <<Utterance("stopped", 0)>>
           /\ (ToggleMute \/ WakeResult(CmdUnmute)) => synth'.queue = <<Utterance("voiceOn", 0)>>
           /\ WakeResult(CmdMute) => synth'.queue = <<Utterance("muted", 0)>> ]_vars
  /\ []((voiceMuted /\ C10_WakeListening) =>
          bareWakeWord(synth).queue = <<Utterance("yes", 0)>>)

(* C10, amended: while voice is muted the answers and apologies to         *)
(* questions and the acknowledgements "Voice on.", "Muted." and            *)
(* "Streaming stopped." are still played; a bare wake word is not          *)
(* acknowledged while muted (handling it leaves the synthesizer as it is). *)
C10_MutedAnswersAndControlsPlay ==
  /\ [][ voiceMuted =>
           /\ \A h \in Handlers, resp \in Responses :
                QuestionResponse(h, resp) =>
                  /\ Len(synth'.queue) = 1
                  /\ synth'.queue[1].owner = h
                  /\ synth'.queue[1].kind \in {"answer", "apology"}
           /\ StopStreaming => synth'.queue = <<Utterance("stopped", 0)>>
           /\ (ToggleMute \/ WakeResult(CmdUnmute)) => synth'.queue = <<Utterance("voiceOn", 0)>>
           /\ WakeResult(CmdMute) => synth'.queue = <<Utterance("muted", 0)>> ]_vars
  /\ []((voiceMuted /\ C10_WakeListening) => bareWakeWord(synth) = synth)

(* The answer to a question is playing while voice is muted.               *)
C10_Witness ==
  /\ voiceMuted
  /\ \E h \in Handlers : synth.queue = <<Utterance("answer", h)>>

(* C11: a NeedsCapture utterance handled by processUserInput while the     *)
(* camera is not ready gets the camera-unavailable apology, spoken with    *)
(* priority (it is alone in the synthesizer); no request is sent to        *)
(* /api/chat; and when the apology has ended (or was cancelled) the        *)
(* handler is done and isProcessing is false.                              *)
(* The utterances that processUserInput classifies as NeedsCapture.        *)
CaptureMessages == { m \in Messages : needsCapture(m) }

C11_CameraUnavailableApology ==
  [][ /\ \A stopped \in BOOLEAN, captured \in BOOLEAN, message \in CaptureMessages :
           ( /\ ~cameraReady
             /\ \E h \in Handlers : questions[h].pc = "idle" /\ questions'[h].pc # "idle"
             /\ DemoFinalResult(stopped, message, captured) )
           => /\ synth'.queue = <<Utterance("unavailable", NewHandler)>>
              /\ questions'[NewHandler].pc = "speaking"
              /\ \A h \in Handlers :
                   questions'[h].pc = "fetching" => questions[h].pc = "fetching"
      /\ \A u \in Range(synth.queue) \cup synth.errors :
           ( /\ u.kind = "unavailable"
             /\ \/ UtteranceError(u)
                \/ (synth.queue # << >> /\ Head(synth.queue) = u /\ UtteranceEnd) )
           => /\ ~isProcessing'
              /\ questions'[u.owner] = Idle ]_vars

(* The apology is playing for a handler, the camera not being ready.       *)
C11_Witness ==
  /\ ~cameraReady
  /\ \E h \in Handlers :
       /\ questions[h].pc = "speaking"
       /\ synth.queue = <<Utterance("unavailable", h)>>

(* C12: an utterance is handled as NeedsCapture exactly when its           *)
(* lower-cased text has one of the trigger words as a contiguous piece,    *)
(* and as UsesMemory otherwise; "What's around me?" and "Describe my       *)
(* surroundings" are NeedsCapture, "Where was the chair?" and "Tell me     *)
(* more" are UsesMemory.                                                   *)
C12_ContainsTrigger(text) ==
  LET lower == toLowerCase(text)
  IN \E w \in Triggers :
       \E i \in 1..Len(lower) :
         /\ i + Len(w) - 1 <= Len(lower)
         /\ \A k \in 1..Len(w) : lower[i + k - 1] = w[k]

C12_TriggerMessages == { m \in Messages : C12_ContainsTrigger(m) }

C12_Examples ==
  /\ MsgAroundMe \in CaptureMessages
  /\ MsgSurroundings \in CaptureMessages
  /\ MsgChair \notin CaptureMessages
  /\ MsgTellMore \notin CaptureMessages
  /\ CaptureMessages = C12_TriggerMessages

C12_Classification ==
  /\ []C12_Examples
  /\ [][ \A stopped \in BOOLEAN, captured \in BOOLEAN, message \in Messages :
           ( /\ \E h \in Handlers : questions[h].pc = "idle" /\ questions'[h].pc # "idle"
             /\ DemoFinalResult(stopped, message, captured) ) =>
             IF message \in C12_TriggerMessages
               THEN IF cameraReady
                      THEN questions'[NewHandler] = [pc |-> "fetching", image |-> captured]
                      ELSE synth'.queue = <<Utterance("unavailable", NewHandler)>>
               ELSE IF Falsy(mic.memory)
                      THEN synth'.queue = <<Utterance("guidance", NewHandler)>>
                      ELSE questions'[NewHandler] = [pc |-> "fetching", image |-> FALSE]
       ]_vars

(* An utterance was classified NeedsCapture and its request carries the    *)
(* captured image.                                                         *)
C12_Witness ==
  \E h \in Handlers : questions[h].pc = "fetching" /\ questions[h].image

C14_MemoryNonEmpty == sceneMemory = Null \/ trim(sceneMemory) # Empty

(* C15: stopping a session resets the scene memory to absent, and the      *)
(* first description of a session that is not blank is accepted, whatever  *)
(* the previous session stored.                                            *)
C15_MemoryResetOnStop ==
  [][ /\ (StopStreaming \/ \E t \in pendingStops : OvershootStopResolved(t))
           => sceneMemory' = Null
      /\ \A resp \in Responses :
           ( /\ FrameResponse("live", resp)
             /\ ~Throws(resp)
             /\ trim(collectSSE(resp.events)) # Empty
             /\ metrics.framesProcessed = 0 )
           => /\ sceneMemory' = collectSSE(resp.events)
              /\ metrics'.newDescriptions = metrics.newDescriptions + 1 ]_vars

(* C16: a tick for which captureFrameImage returns no image sends no       *)
(* request and leaves the in-flight flag as it was (the callback touches   *)
(* neither the counters nor the scene memory before its request).          *)
C16_NoFrameTickSkipped ==
  (component = "streaming" /\ timers # {} /\ ~captureFrameImage)
    => (~tick.sent /\ tick.isAnalyzing = isAnalyzing)

(* The timer is running, no request is in flight and no question is being  *)
(* handled, and the video has no frame yet: the tick returns early for     *)
(* want of a frame.                                                        *)
C16_Witness ==
  /\ component = "streaming"
  /\ timers # {}
  /\ ~isProcessing /\ ~isAnalyzing
  /\ ~captureFrameImage

(* C17: every frame that was captured and sent is counted in               *)
(* framesProcessed exactly once by the time its analysis has completed,    *)
(* whether the analysis succeeded, failed or returned blank text.          *)
C17_EveryFrameCounted ==
  [][ \A age \in Ages, resp \in Responses :
        FrameResponse(age, resp) =>
          metrics'.framesProcessed = metrics.framesProcessed + 1 ]_vars

(* C18: the counters are set to zero when sampling starts, decrease at no  *)
(* other step, and in a running session are not changed by the result of a *)
(* request that was sent before the last stop.                             *)
C18_CountersPerSession ==
  [][ /\ (StartStreamingGranted \/ OvershootStartResolved)
           => metrics' = [framesProcessed |-> 0, newDescriptions |-> 0]
      /\ ( \/ metrics'.framesProcessed < metrics.framesProcessed
           \/ metrics'.newDescriptions < metrics.newDescriptions )
           => (StartStreamingGranted \/ OvershootStartResolved)
      /\ \A resp \in Responses :
           (isStreaming /\ FrameResponse("stale", resp)) => metrics' = metrics ]_vars

(* C19: wordSimilarity is 0 when an input is empty and otherwise the       *)
(* Jaccard index of the two sets of lower-cased words (the maximal runs of *)
(* non-whitespace characters), for every description compared with the     *)
(* stored one.                                                             *)
C19_Words(s) ==
  LET lower == toLowerCase(s)
  IN { SubSeq(lower, i, j) : <<i, j>> \in
         { p \in (1..Len(lower)) \X (1..Len(lower)) :
             /\ p[1] <= p[2]
             /\ \A k \in p[1]..p[2] : lower[k] \notin Whitespace
             /\ p[1] = 1 \/ lower[p[1] - 1] \in Whitespace
             /\ p[2] = Len(lower) \/ lower[p[2] + 1] \in Whitespace } }

C19_Descriptions ==
  {Empty, TextABC, TextABCD, TextABDotCD, TextSpABC, <<"a", " ", "b">>,
   <<"b", " ", "c">>, <<"A", " ", " ", "b">>}

C19_JaccardOfWords ==
  \A d \in C19_Descriptions :
    LET sim == wordSimilarity(d, lastDescription)
        A == C19_Words(d)
        B == C19_Words(lastDescription)
    IN IF d = Empty \/ lastDescription = Empty
         THEN sim[1] = 0
         ELSE sim[1] * Cardinality(A \cup B) = Cardinality(A \cap B) * sim[2]

(* C20: reading a text chunk hands to speech exactly the sentences that    *)
(* end at a terminator immediately followed by whitespace in the buffer    *)
(* with the chunk appended, in order, each cut after its terminator; no    *)
(* such boundary is left in the buffer; what was handed over before stays. *)
C20_Boundaries(text) ==
  { i \in 1..(Len(text) - 1) : text[i] \in Terminators /\ text[i + 1] \in Whitespace }

C20_Nth(S, k) == CHOOSE b \in S : Cardinality({ x \in S : x < b }) = k - 1

C20_BoundaryEmission ==
  [][ \A chunk \in Chunks :
        ReaderText(chunk) =>
          LET acc == reader.st.buffer \o chunk
              cuts == C20_Boundaries(acc)
              before == Len(reader.st.spoken)
              after == reader'.st.spoken
          IN /\ Len(after) = before + Cardinality(cuts)
             /\ SubSeq(after, 1, before) = reader.st.spoken
             /\ \A k \in 1..Cardinality(cuts) :
                  after[before + k] =
                    trim(SubSeq(acc,
                                (IF k = 1 THEN 0 ELSE C20_Nth(cuts, k - 1)) + 1,
                                C20_Nth(cuts, k)))
             /\ C20_Boundaries(reader'.st.buffer) = {} ]_vars

(* A sentence has been handed over and the buffer holds a terminator that  *)
(* is followed by no whitespace.                                           *)
C20_Witness ==
  /\ reader.open
  /\ Len(reader.st.spoken) >= 1
  /\ \E i \in 1..Len(reader.st.buffer) : reader.st.buffer[i] \in Terminators

(* C21: at every point of a stream the units handed to speech followed by  *)
(* the buffer hold the non-whitespace characters of the text read so far,  *)
(* in order and once each; every unit is a non-empty contiguous piece of   *)
(* that text without surrounding whitespace; reading a chunk hands over    *)
(* only units that end with a terminator; a final flush (done event or end *)
(* of stream) hands over at most the trimmed buffer and empties it, so a   *)
(* repeated final flush hands over nothing.                                *)
C21_NonWhitespace(text) == SelectSeq(text, LAMBDA c : c \notin Whitespace)

C21_Conservation ==
  /\ [](/\ C21_NonWhitespace(Concat(reader.st.spoken) \o reader.st.buffer)
            = C21_NonWhitespace(reader.fullText)
        /\ \A k \in 1..Len(reader.st.spoken) :
             LET unit == reader.st.spoken[k]
             IN /\ unit # Empty
                /\ trim(unit) = unit
                /\ includes(reader.fullText, unit))
  /\ [][ /\ \A chunk \in Chunks :
            ReaderText(chunk) =>
              /\ Len(reader'.st.spoken) >= Len(reader.st.spoken)
              /\ \A k \in (Len(reader.st.spoken) + 1)..Len(reader'.st.spoken) :
                   LET unit == reader'.st.spoken[k]
                   IN unit[Len(unit)] \in Terminators
        /\ (ReaderDone \/ ReaderEnd) =>
              /\ reader'.st.buffer = Empty
              /\ reader'.st.spoken =
                   reader.st.spoken \o
                     (IF trim(reader.st.buffer) = Empty THEN << >>
                      ELSE <<trim(reader.st.buffer)>>) ]_vars

(* A stream of two reads has ended: three units were handed over, the last *)
(* one cut by the final flush and not by a terminator.                     *)
C21_Witness ==
  /\ ~reader.open
  /\ reader.reads >= 2
  /\ Len(reader.st.spoken) >= 3
  /\ reader.st.buffer = Empty
  /\ LET unit == reader.st.spoken[Len(reader.st.spoken)]
     IN unit[Len(unit)] \notin Terminators

(* C22: every event stream the chat endpoint opens is a sequence of text   *)
(* events closed by exactly one done event with nothing after it, and a    *)
(* request without a message gets status 400 and no stream.                *)
C22_Terminated(events) ==
  /\ events # << >>
  /\ events[Len(events)] = DoneEvent
  /\ \A i \in 1..(Len(events) - 1) : events[i].type = "text"

C22_Answers == { ChatHandler(TRUE, u) : u \in Upstreams }

C22_StreamEndsWithDone ==
  [][ \A h \in Handlers :
        questions[h].pc # questions'[h].pc =>
          \A resp \in C22_Answers :
            (QuestionResponse(h, resp) \/ DemoResponse(h, resp)) =>
              /\ C22_Terminated(resp.events)
              /\ \A u \in Upstreams :
                   /\ ChatHandler(FALSE, u).status = 400
                   /\ ChatHandler(FALSE, u).events = << >> ]_vars

(* C23: at most one sampling timer is active, and while streaming is off   *)
(* and no startStreaming call is awaiting the camera no timer is active,   *)
(* so that no tick fires after stopStreaming.                              *)
C23_SingleTimer ==
  component = "streaming" =>
    /\ Cardinality(timers) <= 1
    /\ (~isStreaming /\ pendingStarts = 0) => timers = {}

(* C24: in streaming mode no wake-word recognizer is running while the     *)
(* manual microphone's recognizer is open, and never more than one         *)
(* wake-word recognizer is running.                                        *)
C24_SingleRecognizer ==
  component = "streaming" =>
    /\ mic.open > 0 => wake.running = 0
    /\ wake.running <= 1

(* C25: at most one question is being handled at a time, and the           *)
(* processing flag is true exactly while a question is being handled.      *)
C25_InFlight == { h \in Handlers : questions[h].pc # "idle" }

C25_SingleQuestion ==
  /\ Cardinality(C25_InFlight) <= 1
  /\ isProcessing <=> C25_InFlight # {}

(* C26: when a response stream has been delivered in full, the text the   *)
(* client has assembled is the concatenation, in order, of the text fields *)
(* of the events the server wrote, however the bytes were split into       *)
(* chunks.                                                                 *)
C26_AssembledText ==
  (reader.events # << >> /\ reader.wire = Empty) =>
    reader.fullText = collectSSE(reader.events)

(* C27: when an utterance that needs a capture is handled with the camera  *)
(* ready and captureImage yields no image, no handler goes on to send a    *)
(* chat request and scene memory stays as it is.                           *)
C27_NoRequestWithoutImage ==
  [][ \A stopped \in BOOLEAN, message \in CaptureMessages :
        ( /\ cameraReady
          /\ \E h \in Handlers : questions[h].pc = "idle" /\ questions'[h].pc # "idle"
          /\ DemoFinalResult(stopped, message, FALSE) )
        => /\ \A h \in Handlers :
                questions'[h].pc = "fetching" => questions[h].pc = "fetching"
           /\ sceneMemory' = sceneMemory ]_vars

(* C28: the number of accepted descriptions never exceeds the number of    *)
(* frames counted, and neither is negative.                                *)
C28_AcceptedAtMostCounted ==
  /\ metrics.newDescriptions <= metrics.framesProcessed
  /\ metrics.newDescriptions >= 0
  /\ metrics.framesProcessed >= 0

(* A description was accepted in a session that started while a request of *)
(* the session before was still outstanding.                               *)
C28_Witness ==
  /\ component = "streaming"
  /\ isStreaming
  /\ metrics.newDescriptions >= 1
  /\ frameRequests.stale >= 1

(* C29: every question handler that has started eventually finishes, and  *)
(* at that point the processing flag is false; the processing flag never   *)
(* stays true forever.                                                     *)
C29_EventuallyIdle ==
  /\ \A h \in Handlers :
       (questions[h].pc # "idle") ~> (questions[h].pc = "idle" /\ ~isProcessing)
  /\ isProcessing ~> ~isProcessing

(* An answered question has finished: a turn is in the history, no handler *)
(* is in flight and the processing flag is false.                          *)
C29_Witness ==
  /\ conversationHistory # << >>
  /\ \A h \in Handlers : questions[h].pc = "idle"
  /\ ~isProcessing
  /\ synth.errors = {}

(* C30: the step in which a handler that carries no image gets the outcome *)
(* of its chat call, an answer or a failure, leaves scene memory as it is; *)
(* scene memory changes only in a sampler's step that accepts a            *)
(* description or in the step that completes a question carrying an image. *)
C30_MemoryWriters ==
  [][ /\ \A h \in Handlers :
           ( /\ questions[h].pc = "fetching"
             /\ ~questions[h].image
             /\ questions'[h].pc # "fetching" )
           => sceneMemory' = sceneMemory
      /\ sceneMemory' # sceneMemory =>
           \/ \E resp \in Responses :
                /\ FrameResponse("live", resp)
                /\ ~Throws(resp)
                /\ ~AboveThreshold(wordSimilarity(collectSSE(resp.events), lastDescription))
           \/ \E h \in Handlers, resp \in Responses :
                /\ questions[h].image
                /\ ~Throws(resp)
                /\ DemoResponse(h, resp) ]_vars

(* A question that carries no image has been answered while scene memory   *)
(* held a description.                                                     *)
C30_Witness ==
  /\ sceneMemory \notin {Null, Empty}
  /\ conversationHistory # << >>
  /\ component = "streaming"
  /\ \E h \in Handlers : questions[h].pc = "speaking"

====
